---- MODULE Spec2Model ----
(***************************************************************************)
(* Box geometry, anchor assignment and greedy non-max suppression of       *)
(* utils.py (iou, preprocess_true_boxes, nms).                             *)
(*                                                                         *)
(* Numbers.  Corner coordinates of boxes are integers.  A threshold, an    *)
(* IoU and a normalized center are exact fractions <<num, den>>; "iou < t" *)
(* is decided by cross multiplication.  Label and anchor widths/heights    *)
(* and label centers are in tenths of the image side.  Sequences are       *)
(* 1-based: position p here is index p-1 of the Python code.               *)
(***************************************************************************)
EXTENDS Integers, Sequences, FiniteSets, TLC

VARIABLES
    pc,                  \* "init" | "returned" | "raised" : where the call stands
    boxes,               \* nms: boxes, [N, 4] as a sequence of <<x1, y1, x2, y2>>
    scores,              \* nms: scores, [N]
    iou_threshold,       \* nms: iou_threshold, a fraction <<num, den>>
    max_output_size,     \* nms: max_output_size; <<>> is None, <<m>> is m
    indices,             \* nms: the result of torch.sort(scores, descending=True)
    selected_indices,    \* nms: the returned indices
    exit_by,             \* nms: the statement that ended the loop
    box1, box2,          \* iou: the two boxes
    iou_scores,          \* iou: the returned ratio, <<ins_area, uni_area>>
    labels,              \* preprocess_true_boxes: labels, [B, K, 5]
    anchors,             \* preprocess_true_boxes: anchors, [A, 2]
    grid_size,           \* preprocess_true_boxes: grid_size = <<W, H>>
    num_cls,             \* preprocess_true_boxes: num_cls
    matching_true_boxes  \* preprocess_true_boxes: the target, [B, H, W, A, 5+num_cls]

vars == <<pc, boxes, scores, iou_threshold, max_output_size, indices,
          selected_indices, exit_by, box1, box2, iou_scores,
          labels, anchors, grid_size, num_cls, matching_true_boxes>>

nmsVars == <<boxes, scores, iou_threshold, max_output_size, indices,
             selected_indices, exit_by>>
iouVars == <<box1, box2, iou_scores>>
assignVars == <<labels, anchors, grid_size, num_cls, matching_true_boxes>>

Min2(a, b) == IF a < b THEN a ELSE b
Max2(a, b) == IF a > b THEN a ELSE b

(***************************************************************************)
(* Bounds and input pools                                                  *)
(***************************************************************************)
MaxN == 3          \* nms is called with at most MaxN boxes ...
MaxOut == 2        \* ... and max_output_size None or one of 0..MaxOut
MaxNDefault == 4   \* nms with max_output_size left unset: at most MaxNDefault boxes
MaxCoord == 3      \* iou is called on boxes with corners in 0..MaxCoord
MaxB == 1          \* preprocess_true_boxes: at most MaxB images in the batch
MaxK == 2          \* preprocess_true_boxes: at most MaxK labels per image
NumCls == 2        \* preprocess_true_boxes: the value of num_cls

\* The boxes nms is called with.  Four boxes of positive area with
\* iou(A,B) = 1/4, iou(B,C) = iou(B,D) = 1/3, iou(A,C) = iou(A,D) = 1/9 and
\* iou(C,D) = 0; a box with both corners swapped; a box of zero width.
BoxA == <<1, 0, 3, 4>>
BoxB == <<1, 0, 3, 1>>
BoxC == <<0, 0, 2, 1>>
BoxD == <<2, 0, 4, 1>>
BoxSwapped == <<3, 3, 0, 0>>
BoxFlat == <<0, 0, 0, 1>>
BoxPool == <<BoxA, BoxB, BoxC, BoxD, BoxSwapped, BoxFlat>>

ScoreValues == {1, 2}
Thresholds == {<<1, 4>>, <<1, 3>>, <<1, 2>>}

(***************************************************************************)
(* nms                                                                     *)
(***************************************************************************)
\* area = (x2 - x1) * (y2 - y1)
Area(b) == (b[3] - b[1]) * (b[4] - b[2])

\* .clamp(min=0)
Clamp0(v) == IF v < 0 THEN 0 ELSE v

\* ins = (x2_ - x1_).clamp(min=0) * (y2_ - y1_).clamp(min=0)
NmsIns(a, b) ==
    Clamp0(Min2(a[3], b[3]) - Max2(a[1], b[1]))
  * Clamp0(Min2(a[4], b[4]) - Max2(a[2], b[2]))

\* the denominator of iou: area[idx] + area[remain_idx] - ins
NmsUniWrong(bxs, idx, r) ==
    Area(bxs[idx]) + Area(bxs[idx]) - NmsIns(bxs[r], bxs[idx])
NmsUni(bxs, idx, r) ==
    Area(bxs[idx]) + Area(bxs[r]) - NmsIns(bxs[r], bxs[idx])

\* iou < iou_threshold, for iou = ins / uni with uni > 0
IouBelowInclusive(ins, uni, thr) == ins * thr[2] <= thr[1] * uni
IouBelowFlipped(ins, uni, thr) == ins * thr[2] > thr[1] * uni
IouBelow(ins, uni, thr) == ins * thr[2] < thr[1] * uni

\* keep_mask = iou < iou_threshold, one flag per entry of remain_idx
KeepMask(bxs, idx, remain_idx, thr) ==
    [k \in 1..Len(remain_idx) |->
        IouBelow(NmsIns(bxs[remain_idx[k]], bxs[idx]),
                 NmsUni(bxs, idx, remain_idx[k]), thr)]

\* torch.sum(keep_mask)
RECURSIVE MaskSum(_)
MaskSum(mask) ==
    IF Len(mask) = 0 THEN 0
    ELSE (IF Head(mask) THEN 1 ELSE 0) + MaskSum(Tail(mask))

\* remain_idx[keep_mask]
MaskedUnfiltered(remain_idx, mask) == remain_idx
RECURSIVE Masked(_, _)
Masked(remain_idx, mask) ==
    IF Len(remain_idx) = 0 THEN <<>>
    ELSE (IF Head(mask) THEN <<Head(remain_idx)>> ELSE <<>>)
         \o Masked(Tail(remain_idx), Tail(mask))

\* The while loop.  The result is the list built and the exit taken:
\* "empty" (the loop condition), "last" (remain_idx is empty),
\* "stall" (no survivor in keep_mask), "max" (flag >= max_output_size).
RECURSIVE NmsLoop(_, _, _, _, _, _)
NmsLoop(bxs, idxs, selected, flag, thr, max) ==
    IF Len(idxs) = 0 THEN [sel |-> selected, exit |-> "empty"]
    ELSE LET idx == Head(idxs)
             flag1 == flag + 1
             remain_idx == Tail(idxs)
             selected1 == Append(selected, idx)
         IN  IF Len(remain_idx) = 0 THEN [sel |-> selected1, exit |-> "last"]
             ELSE LET keep_mask == KeepMask(bxs, idx, remain_idx, thr)
                      idxs1 == Masked(remain_idx, keep_mask)
                  IN  IF MaskSum(keep_mask) = 0
                         THEN [sel |-> selected1, exit |-> "stall"]
                      ELSE IF flag1 >= max
                         THEN [sel |-> selected1, exit |-> "max"]
                      ELSE NmsLoop(bxs, idxs1, selected1, flag1, thr, max)

\* if max_output_size is None: max_output_size = len(scores) + 1
MaxOutputs(m, n) == IF m = <<>> THEN n + 1 ELSE m[1]

\* the body of nms after the sort
Nms(bxs, sorted, thr, m) == NmsLoop(bxs, sorted, <<>>, 0, thr, MaxOutputs(m, Len(bxs)))

\* assert (area > 0).all()
AreaAssert(bxs) == \A k \in 1..Len(bxs) : Area(bxs[k]) > 0

\* torch.sort(scores, descending=True): every order of the positions in S
\* that puts higher scores first; the order of equal scores is not specified.
RECURSIVE SortDescending(_, _)
SortDescending(scs, S) ==
    IF S = {} THEN {<<>>}
    ELSE UNION { { <<k>> \o rest : rest \in SortDescending(scs, S \ {k}) } :
                 k \in { j \in S : \A l \in S : scs[j] >= scs[l] } }

\* Sequences of pool positions of length n, in pool order: the boxes of a
\* call are listed in pool order, the scores decide the visiting order.
RECURSIVE PoolPicks(_, _)
PoolPicks(n, from) ==
    IF n = 0 THEN {<<>>}
    ELSE UNION { { <<k>> \o rest : rest \in PoolPicks(n - 1, k) } :
                 k \in from..Len(BoxPool) }

BoxInputs(max) ==
    UNION { { [k \in 1..n |-> BoxPool[p[k]]] : p \in PoolPicks(n, 1) } : n \in 0..max }

MaxOutInputs == {<<>>} \cup { <<m>> : m \in 0..MaxOut }

Idle == <<0, 0, 0, 0>>

InitNmsWith(maxN, maxOuts) ==
    /\ pc = "init"
    /\ boxes \in BoxInputs(maxN)
    /\ scores \in [1..Len(boxes) -> ScoreValues]
    /\ iou_threshold \in Thresholds
    /\ max_output_size \in maxOuts
    /\ indices = <<>>
    /\ selected_indices = <<>>
    /\ exit_by = "none"
    /\ box1 = Idle /\ box2 = Idle /\ iou_scores = <<0, 0>>
    /\ labels = <<>> /\ anchors = <<>> /\ grid_size = <<0, 0>> /\ num_cls = 0
    /\ matching_true_boxes = <<>>

\* len(scores) == 0: warn and return the empty tensor
NmsEmpty ==
    /\ pc = "init"
    /\ Len(scores) = 0
    /\ pc' = "returned"
    /\ selected_indices' = <<>>
    /\ exit_by' = "warn"
    /\ UNCHANGED <<boxes, scores, iou_threshold, max_output_size, indices>>
    /\ UNCHANGED iouVars /\ UNCHANGED assignVars

\* assert (area > 0).all() fails
NmsRaise ==
    /\ pc = "init"
    /\ Len(scores) > 0
    /\ ~AreaAssert(boxes)
    /\ pc' = "raised"
    /\ UNCHANGED nmsVars
    /\ UNCHANGED iouVars /\ UNCHANGED assignVars

\* sort, loop and return
NmsReturn ==
    /\ pc = "init"
    /\ Len(scores) > 0
    /\ AreaAssert(boxes)
    /\ \E sorted \in SortDescending(scores, 1..Len(scores)) :
          LET r == Nms(boxes, sorted, iou_threshold, max_output_size)
          IN  /\ indices' = sorted
              /\ selected_indices' = r.sel
              /\ exit_by' = r.exit
    /\ pc' = "returned"
    /\ UNCHANGED <<boxes, scores, iou_threshold, max_output_size>>
    /\ UNCHANGED iouVars /\ UNCHANGED assignVars

NextNms == NmsEmpty \/ NmsRaise \/ NmsReturn

\* calls of nms with any max_output_size
InitNms == InitNmsWith(MaxN, MaxOutInputs)
SpecNms == InitNms /\ [][NextNms]_vars

\* calls of nms with max_output_size left at its default, None
InitNmsDefault == InitNmsWith(MaxNDefault, {<<>>})
SpecNmsDefault == InitNmsDefault /\ [][NextNms]_vars

(***************************************************************************)
(* iou                                                                     *)
(***************************************************************************)
\* ins_area = (x2 - x1).clamp(min=0) * (y2 - y1).clamp(min=0), with
\* x1, y1 the elementwise maxima and x2, y2 the elementwise minima
IouInsUnclamped(b1, b2) ==
    (Min2(b1[3], b2[3]) - Max2(b1[1], b2[1]))
  * (Min2(b1[4], b2[4]) - Max2(b1[2], b2[2]))
IouIns(b1, b2) ==
    Clamp0(Min2(b1[3], b2[3]) - Max2(b1[1], b2[1]))
  * Clamp0(Min2(b1[4], b2[4]) - Max2(b1[2], b2[2]))

\* uni_area = (box1_x1 - box1_x2) * (box1_y1 - box1_y2)
\*          + (box2_x1 - box2_x2) * (box2_y1 - box2_y2) - ins_area
IouUni(b1, b2) ==
    (b1[1] - b1[3]) * (b1[2] - b1[4])
  + (b2[1] - b2[3]) * (b2[2] - b2[4])
  - IouIns(b1, b2)

\* iou_scores = ins_area / uni_area, kept as the fraction
Iou(b1, b2) == <<IouIns(b1, b2), IouUni(b1, b2)>>

GridBoxes ==
    { <<x1, y1, x2, y2>> : x1 \in 0..MaxCoord, y1 \in 0..MaxCoord,
                           x2 \in 0..MaxCoord, y2 \in 0..MaxCoord }

InitIou ==
    /\ pc = "init"
    /\ box1 \in GridBoxes
    /\ box2 \in GridBoxes
    /\ iou_scores = <<0, 0>>
    /\ boxes = <<>> /\ scores = <<>> /\ iou_threshold = <<0, 1>>
    /\ max_output_size = <<>> /\ indices = <<>> /\ selected_indices = <<>>
    /\ exit_by = "none"
    /\ labels = <<>> /\ anchors = <<>> /\ grid_size = <<0, 0>> /\ num_cls = 0
    /\ matching_true_boxes = <<>>

IouCall ==
    /\ pc = "init"
    /\ iou_scores' = Iou(box1, box2)
    /\ pc' = "returned"
    /\ UNCHANGED <<box1, box2>>
    /\ UNCHANGED nmsVars /\ UNCHANGED assignVars

NextIou == IouCall

SpecIou == InitIou /\ [][NextIou]_vars

(***************************************************************************)
(* preprocess_true_boxes                                                   *)
(*                                                                         *)
(* A label is <<x, y, w, h, c>>: center (x/10, y/10), size (w/10, h/10),   *)
(* class c.  An anchor is <<w, h>>, size (w/10, h/10).  Cells i, j and     *)
(* classes count from 0 as in the code; images, anchors and channels are   *)
(* positions 1.. of their sequences (channel c of the code is position     *)
(* c + 1).                                                                 *)
(***************************************************************************)
InvEps == 1000000  \* the 1e-8 added to uni_area is 1/InvEps hundredths of the image

LabelPool ==
    { <<5, 5, 2, 2, 0>>, <<5, 5, 2, 2, 1>>, <<5, 6, 2, 2, 0>>,
      <<0, 9, 4, 4, 1>>, <<10, 5, 1, 2, 0>> }
AnchorLists ==
    { << <<1, 1>>, <<4, 4>> >>,
      << <<1, 2>>, <<2, 1>> >>,
      << <<2, 2>>, <<1, 1>>, <<2, 2>> >> }
GridSizes == { <<2, 3>>, <<3, 2>> }

GridW(g) == g[1]
GridH(g) == g[2]

\* i = int(box[0]) for box[0] = x * H, and j = int(box[1]) for box[1] = y * W
CellI(box, g) == (box[1] * GridH(g)) \div 10
CellJ(box, g) == (box[2] * GridW(g)) \div 10

\* ins_area = min_wh[..., 0] * min_wh[..., 1]
WhIns(box, a) == Min2(box[3], a[1]) * Min2(box[4], a[2])

\* uni_area = box_w * box_h + anchor_w * anchor_h - ins_area
WhUni(box, a) == box[3] * box[4] + a[1] * a[2] - WhIns(box, a)

\* iou_scores = ins_area / (uni_area + 1e-8), as a fraction; the common
\* factor InvEps of all scores is left out of the numerator
WhScore(box, a) == <<WhIns(box, a), WhUni(box, a) * InvEps + 1>>

\* p < q for fractions with positive denominators
FracLess(p, q) == p[1] * q[2] < q[1] * p[2]

\* np.argmax: the first position holding the maximum
RECURSIVE ArgMaxLastFrom(_, _, _)
ArgMaxLastFrom(s, k, best) ==
    IF k > Len(s) THEN best
    ELSE ArgMaxLastFrom(s, k + 1, IF FracLess(s[k], s[best]) THEN best ELSE k)
ArgMaxLast(s) == ArgMaxLastFrom(s, 2, 1)
RECURSIVE ArgMaxFrom(_, _, _)
ArgMaxFrom(s, k, best) ==
    IF k > Len(s) THEN best
    ELSE ArgMaxFrom(s, k + 1, IF FracLess(s[best], s[k]) THEN k ELSE best)
ArgMax(s) == ArgMaxFrom(s, 2, 1)

\* idx = np.argmax(iou_scores, axis=-1)
BestAnchor(box, anch) == ArgMax([a \in 1..Len(anch) |-> WhScore(box, anch[a])])

\* np.zeros((B, H, W, A, 5 + num_cls)): one channel vector per slot <<b, i, j, a>>
Slots(B, g, A) ==
    { <<b, i, j, a>> : b \in 1..B, i \in 0..(GridH(g) - 1),
                       j \in 0..(GridW(g) - 1), a \in 1..A }
ZeroVector(ncls) ==
    <<<<0, 1>>, <<0, 1>>, 0, 0, 0>> \o [c \in 1..ncls |-> 0]
Zeros(B, g, A, ncls) == [s \in Slots(B, g, A) |-> ZeroVector(ncls)]

\* every index of the writes of one box is inside the array
InRange(box, g, ncls) ==
    /\ CellI(box, g) < GridH(g)
    /\ CellJ(box, g) < GridW(g)
    /\ \A k \in 5..Len(box) : box[k] < ncls

\* the writes of one box into the channel vector of its slot:
\* channels 0..4 are assigned, the flag of each class of the box is set to 1
WriteVector(vec, box, g) ==
    [c \in 1..Len(vec) |->
        IF c = 1 THEN <<box[1] * GridH(g), 10 * GridH(g)>>
        ELSE IF c = 2 THEN <<box[2] * GridW(g), 10 * GridW(g)>>
        ELSE IF c = 3 THEN box[3]
        ELSE IF c = 4 THEN box[4]
        ELSE IF c = 5 THEN 1
        ELSE IF \E k \in 5..Len(box) : c = box[k] + 6 THEN 1
        ELSE vec[c]]

\* the body of "for box in labels_[b]"
WriteBox(t, b, box, anch, g) ==
    LET slot == <<b, CellI(box, g), CellJ(box, g), BestAnchor(box, anch)>>
    IN  [t EXCEPT ![slot] = WriteVector(t[slot], box, g)]

\* "for box in labels_[b]" from label k on; ok is FALSE when a write raised
RECURSIVE WriteImage(_, _, _, _, _, _, _)
WriteImage(t, b, lbs, k, anch, g, ncls) ==
    IF k > Len(lbs) THEN [ok |-> TRUE, t |-> t]
    ELSE IF ~InRange(lbs[k], g, ncls) THEN [ok |-> FALSE, t |-> t]
    ELSE WriteImage(WriteBox(t, b, lbs[k], anch, g), b, lbs, k + 1, anch, g, ncls)

\* "for b in range(B)" from image b on
RECURSIVE WriteBatch(_, _, _, _, _, _)
WriteBatch(t, lab, b, anch, g, ncls) ==
    IF b > Len(lab) THEN [ok |-> TRUE, t |-> t]
    ELSE LET r == WriteImage(t, b, lab[b], 1, anch, g, ncls)
         IN  IF ~r.ok THEN r
             ELSE WriteBatch(r.t, lab, b + 1, anch, g, ncls)

preprocess_true_boxes(lab, anch, g, ncls) ==
    WriteBatch(Zeros(Len(lab), g, Len(anch), ncls), lab, 1, anch, g, ncls)

LabelInputs ==
    UNION { [1..B -> [1..K -> LabelPool]] : B \in 1..MaxB, K \in 0..MaxK }

InitAssign ==
    /\ pc = "init"
    /\ labels \in LabelInputs
    /\ anchors \in AnchorLists
    /\ grid_size \in GridSizes
    /\ num_cls = NumCls
    /\ matching_true_boxes = <<>>
    /\ boxes = <<>> /\ scores = <<>> /\ iou_threshold = <<0, 1>>
    /\ max_output_size = <<>> /\ indices = <<>> /\ selected_indices = <<>>
    /\ exit_by = "none"
    /\ box1 = Idle /\ box2 = Idle /\ iou_scores = <<0, 0>>

\* every write is inside the array: the target is returned
AssignReturn ==
    /\ pc = "init"
    /\ LET r == preprocess_true_boxes(labels, anchors, grid_size, num_cls)
       IN  /\ r.ok
           /\ matching_true_boxes' = r.t
    /\ pc' = "returned"
    /\ UNCHANGED <<labels, anchors, grid_size, num_cls>>
    /\ UNCHANGED nmsVars /\ UNCHANGED iouVars

\* a write is outside the array: IndexError
AssignRaise ==
    /\ pc = "init"
    /\ ~preprocess_true_boxes(labels, anchors, grid_size, num_cls).ok
    /\ pc' = "raised"
    /\ UNCHANGED assignVars
    /\ UNCHANGED nmsVars /\ UNCHANGED iouVars

NextAssign == AssignReturn \/ AssignRaise

SpecAssign == InitAssign /\ [][NextAssign]_vars

(***************************************************************************)
(* Properties of nms                                                       *)
(***************************************************************************)
\* x2 > x1 and y2 > y1
ValidBox(b) == b[3] > b[1] /\ b[4] > b[2]
AllValid(bxs) == \A k \in 1..Len(bxs) : ValidBox(bxs[k])

\* a <= b for fractions with positive denominators
FracLeq(a, b) == a[1] * b[2] <= b[1] * a[2]

\* iou(a, b) >= t, by the iou function
Overlaps(a, b, t) == Iou(a, b)[1] * t[2] >= t[1] * Iou(a, b)[2]

Range(s) == { s[k] : k \in 1..Len(s) }

\* the entries of seq at the positions listed in sel
Sub(seq, sel) == [k \in 1..Len(sel) |-> seq[sel[k]]]

\* C1: the sequence nms returns has length at most
\* min(N, maxOutputs), for every non-negative maxOutputs.
C1_LengthAtMostMin ==
    (pc = "returned" /\ max_output_size # <<>>)
        => Len(selected_indices) <= Min2(Len(boxes), max_output_size[1])

\* C2: with maxOutputs unset, nms at a threshold t_low <= t_high
\* never selects more indices than at t_high, for the same boxes and scores.
C2_Monotone ==
    (pc = "returned" /\ max_output_size = <<>> /\ Len(boxes) > 0)
        => \A t \in Thresholds :
              FracLeq(t, iou_threshold)
                  => Len(Nms(boxes, indices, t, <<>>).sel) <= Len(selected_indices)

\* C2 as amended: the same, for inputs of at most three boxes.
C2_MonotoneUpTo3 ==
    (pc = "returned" /\ max_output_size = <<>> /\ Len(boxes) > 0 /\ Len(boxes) <= 3)
        => \A t \in Thresholds :
              FracLeq(t, iou_threshold)
                  => Len(Nms(boxes, indices, t, <<>>).sel) <= Len(selected_indices)

\* three boxes, and a lower threshold that selects strictly fewer of them
C2_Witness ==
    /\ pc = "returned" /\ max_output_size = <<>> /\ Len(boxes) = 3
    /\ \E t \in Thresholds :
          /\ FracLeq(t, iou_threshold)
          /\ Len(Nms(boxes, indices, t, <<>>).sel) < Len(selected_indices)

\* C3: nms raises whenever some input box fails x2 > x1 and
\* y2 > y1, a box with both x2 < x1 and y2 < y1 included.
C3_InvalidBoxRaises ==
    (pc # "init" /\ ~AllValid(boxes)) => pc = "raised"

\* C5: with maxOutputs unset, nms applied with the same threshold
\* to the boxes and scores it selected returns all of them, in whatever order
\* the second sort puts equal scores.
C5_Idempotent ==
    (pc = "returned" /\ max_output_size = <<>> /\ Len(boxes) > 0)
        => LET bxs2 == Sub(boxes, selected_indices)
               scs2 == Sub(scores, selected_indices)
           IN  /\ AreaAssert(bxs2)
               /\ \A sorted2 \in SortDescending(scs2, 1..Len(scs2)) :
                     Len(Nms(bxs2, sorted2, iou_threshold, <<>>).sel) = Len(bxs2)

\* the first run suppressed a box and kept at least two
C5_Witness ==
    /\ pc = "returned" /\ max_output_size = <<>>
    /\ Len(selected_indices) >= 2
    /\ Len(selected_indices) < Len(boxes)

\* C8: with maxOutputs unset and positive-area boxes, nms visits
\* the boxes by descending score and selects an index exactly when no index
\* selected before it has IoU >= iouThreshold with it; the first selected index
\* has the highest score, and every unselected index has IoU >= iouThreshold
\* with a selected index visited before it.
C8_Greedy ==
    (pc = "returned" /\ max_output_size = <<>> /\ Len(boxes) > 0 /\ AllValid(boxes))
        => LET sel == Range(selected_indices)
               n == Len(boxes)
           IN  /\ Range(indices) = 1..n
               /\ \A p \in 1..(n - 1) : scores[indices[p]] >= scores[indices[p + 1]]
               /\ selected_indices = SelectSeq(indices, LAMBDA k : k \in sel)
               /\ selected_indices[1] = indices[1]
               /\ \A k \in 1..n : scores[selected_indices[1]] >= scores[k]
               /\ \A p \in 1..n :
                     indices[p] \in sel <=>
                         \A q \in 1..(p - 1) :
                             indices[q] \in sel =>
                                 ~Overlaps(boxes[indices[q]], boxes[indices[p]], iou_threshold)
               /\ \A p \in 1..n :
                     indices[p] \notin sel =>
                         \E q \in 1..(p - 1) :
                             /\ indices[q] \in sel
                             /\ Overlaps(boxes[indices[q]], boxes[indices[p]], iou_threshold)

\* a box was suppressed by a box other than the first one selected
C8_Witness ==
    /\ pc = "returned" /\ max_output_size = <<>> /\ AllValid(boxes)
    /\ Len(selected_indices) >= 2
    /\ \E p \in 1..Len(indices) :
          /\ indices[p] \notin Range(selected_indices)
          /\ ~Overlaps(boxes[indices[1]], boxes[indices[p]], iou_threshold)

\* the while loop of nms without the "torch.sum(keep_mask) == 0" break
RECURSIVE NmsLoopNoStall(_, _, _, _, _, _)
NmsLoopNoStall(bxs, idxs, selected, flag, thr, max) ==
    IF Len(idxs) = 0 THEN selected
    ELSE LET idx == Head(idxs)
             flag1 == flag + 1
             remain_idx == Tail(idxs)
             selected1 == Append(selected, idx)
         IN  IF Len(remain_idx) = 0 THEN selected1
             ELSE LET keep_mask == KeepMask(bxs, idx, remain_idx, thr)
                      idxs1 == Masked(remain_idx, keep_mask)
                  IN  IF flag1 >= max THEN selected1
                      ELSE NmsLoopNoStall(bxs, idxs1, selected1, flag1, thr, max)

\* C9: the "zero survivors" break is redundant: nms returns the
\* index sequence that the same loop without that break returns.
C9_StallBreakRedundant ==
    (pc = "returned" /\ Len(boxes) > 0)
        => selected_indices =
               NmsLoopNoStall(boxes, indices, <<>>, 0, iou_threshold,
                              MaxOutputs(max_output_size, Len(boxes)))

\* the loop ended at the "zero survivors" break
C9_Witness ==
    pc = "returned" /\ exit_by = "stall" /\ Len(boxes) >= 3

(***************************************************************************)
(* Properties of iou                                                       *)
(***************************************************************************)
\* C7: for boxes A and B with x2 > x1 and y2 > y1,
\* 0 <= iou(A, B) <= 1.
C7_IouBounds ==
    (pc = "returned" /\ ValidBox(box1) /\ ValidBox(box2))
        => /\ iou_scores[2] > 0
           /\ 0 <= iou_scores[1]
           /\ iou_scores[1] <= iou_scores[2]

\* two valid boxes that overlap in part
C7_Witness ==
    /\ pc = "returned" /\ ValidBox(box1) /\ ValidBox(box2)
    /\ 0 < iou_scores[1] /\ iou_scores[1] < iou_scores[2]

(***************************************************************************)
(* Properties of preprocess_true_boxes                                     *)
(***************************************************************************)
\* the positions <<b, k>> of the labels
LabelAt ==
    UNION { { <<b, k>> : k \in 1..Len(labels[b]) } : b \in 1..Len(labels) }

\* the slot label k of image b is written to
SlotOf(b, k) ==
    <<b, CellI(labels[b][k], grid_size), CellJ(labels[b][k], grid_size),
      BestAnchor(labels[b][k], anchors)>>

\* C4: when several labels of one image map to the same slot, the
\* channel vector of the slot is what the last of them alone would have
\* written; nothing written by an earlier one remains.
C4_LastWriteWins ==
    pc = "returned"
        => \A bk \in LabelAt :
              LET b == bk[1]
                  same == { k \in 1..Len(labels[b]) : SlotOf(b, k) = SlotOf(b, bk[2]) }
                  last == CHOOSE k \in same : \A l \in same : l <= k
              IN  Cardinality(same) >= 2
                      => matching_true_boxes[SlotOf(b, last)]
                             = WriteVector(ZeroVector(num_cls), labels[b][last], grid_size)

\* anchor a has the maximal width/height IoU ins / uni with the box, and no
\* anchor before it has the same IoU
MaxIouFirst(box, a) ==
    /\ \A l \in 1..Len(anchors) :
          WhIns(box, anchors[l]) * WhUni(box, anchors[a])
              <= WhIns(box, anchors[a]) * WhUni(box, anchors[l])
    /\ \A l \in 1..(a - 1) :
          WhIns(box, anchors[l]) * WhUni(box, anchors[a])
              < WhIns(box, anchors[a]) * WhUni(box, anchors[l])

\* the same for the stabilized score ins / (uni + 1e-8)
MaxScoreFirst(box, a) ==
    /\ \A l \in 1..Len(anchors) :
          ~FracLess(WhScore(box, anchors[a]), WhScore(box, anchors[l]))
    /\ \A l \in 1..(a - 1) :
          FracLess(WhScore(box, anchors[l]), WhScore(box, anchors[a]))

\* the slots whose objectness channel is 1
ObjectSlots == { s \in DOMAIN matching_true_boxes : matching_true_boxes[s][5] = 1 }

\* C6: every label sets objectness in exactly one anchor slot of
\* its cell: that of the anchor of maximal width/height IoU, the lowest index
\* among anchors of equal IoU.
C6_ObjectnessAtMaxIou ==
    pc = "returned"
        => ObjectSlots =
               { s \in DOMAIN matching_true_boxes :
                   \E bk \in LabelAt :
                       /\ s = <<bk[1], CellI(labels[bk[1]][bk[2]], grid_size),
                                CellJ(labels[bk[1]][bk[2]], grid_size), s[4]>>
                       /\ MaxIouFirst(labels[bk[1]][bk[2]], s[4]) }

\* C6 as amended: the anchor is the one of maximal stabilized
\* score ins / (uni + 1e-8), the lowest index among anchors of equal score.
C6_ObjectnessAtMaxScore ==
    pc = "returned"
        => ObjectSlots =
               { s \in DOMAIN matching_true_boxes :
                   \E bk \in LabelAt :
                       /\ s = <<bk[1], CellI(labels[bk[1]][bk[2]], grid_size),
                                CellJ(labels[bk[1]][bk[2]], grid_size), s[4]>>
                       /\ MaxScoreFirst(labels[bk[1]][bk[2]], s[4]) }

\* a label for which two anchors share the maximal score was assigned
C6_Witness ==
    /\ pc = "returned"
    /\ \E bk \in LabelAt : \E a1, a2 \in 1..Len(anchors) :
          /\ a1 < a2
          /\ MaxScoreFirst(labels[bk[1]][bk[2]], a1)
          /\ ~FracLess(WhScore(labels[bk[1]][bk[2]], anchors[a2]),
                       WhScore(labels[bk[1]][bk[2]], anchors[a1]))
          /\ matching_true_boxes[SlotOf(bk[1], bk[2])][5] = 1

\* C10: for labels with both center coordinates in [0, 1], 1
\* included, the cell (i, j) satisfies 0 <= i < H and 0 <= j < W and no write
\* uses an index outside the target.
C10_CellInsideGrid ==
    (pc # "init" /\ \A bk \in LabelAt :
                        /\ labels[bk[1]][bk[2]][1] \in 0..10
                        /\ labels[bk[1]][bk[2]][2] \in 0..10)
        => /\ pc = "returned"
           /\ \A bk \in LabelAt :
                 /\ CellI(labels[bk[1]][bk[2]], grid_size) \in 0..(GridH(grid_size) - 1)
                 /\ CellJ(labels[bk[1]][bk[2]], grid_size) \in 0..(GridW(grid_size) - 1)

====
